---- MODULE Spec2Model ----
(***************************************************************************)
(* Smart water quality monitor (src/app.py): one Streamlit script that is  *)
(* re-run from top to bottom on every cycle.  A run reads the widgets,     *)
(* takes a reading (sliders, simulated spike or normal simulation),        *)
(* stores it in three rolling histories kept in the session state,         *)
(* classifies it, computes the quality index and logs Unsafe readings.     *)
(*                                                                         *)
(* A pH or turbidity value is a Python float holding a two-decimal number  *)
(* (round(x, 2), or the position of a slider that moves in steps of 0.01). *)
(* It is written here as the integer number of hundredths c; Dec(c) is the *)
(* binary64 value the program holds, the double nearest c/100, and the     *)
(* arithmetic of the quality index is binary64 arithmetic.                 *)
(***************************************************************************)
EXTENDS Integers, Sequences, FiniteSets, TLC

VARIABLES
    session_keys,    \* the keys present in st.session_state
    ph_history,      \* st.session_state.ph_history  (<<>> while the key is absent)
    turb_history,    \* st.session_state.turb_history
    tds_history,     \* st.session_state.tds_history
    alert_log,       \* st.session_state.alert_log
    location,        \* the script's globals as the last run left them
    demo_mode,
    simulate_spike,
    slider,          \* the three slider positions of the last run (<<>>: not rendered)
    ph,
    turbidity,
    tds,
    status,
    wqi,
    now,             \* datetime.now() of the last run, in seconds since midnight
    cycles,          \* history: number of runs since the session started
    readings         \* history: the reading <<ph, turbidity, tds>> of every run

vars == <<session_keys, ph_history, turb_history, tds_history, alert_log,
          location, demo_mode, simulate_spike, slider, ph, turbidity, tds,
          status, wqi, now, cycles, readings>>

(***************************************************************************)
(* binary64 arithmetic.  A finite double is [neg, mag]: a sign and a       *)
(* magnitude counted in units of 2^-59, held in three limbs <<h, m, l>> of *)
(* value h * Limb^2 + m * Limb + l.  Every double the program computes is  *)
(* zero or lies in [2^-7, 2^8), so it is a whole number of units.          *)
(***************************************************************************)
Limb == 2 ^ 23

\* one = 2^59 units = UnitHi * Limb^2
UnitHi == 2 ^ 13

\* significant bits of a binary64
MantBits == 53

Norm(h, m, l) ==
    LET m1 == m + (l \div Limb)
    IN  <<h + (m1 \div Limb), m1 % Limb, l % Limb>>

RECURSIVE BitLen(_)
BitLen(n) == IF n = 0 THEN 0 ELSE 1 + BitLen(n \div 2)

MagBits(a) ==
    IF a[1] > 0 THEN 46 + BitLen(a[1])
    ELSE IF a[2] > 0 THEN 23 + BitLen(a[2])
    ELSE BitLen(a[3])

MagLt(a, b) ==
    \/ a[1] < b[1]
    \/ a[1] = b[1] /\ a[2] < b[2]
    \/ a[1] = b[1] /\ a[2] = b[2] /\ a[3] < b[3]

MagAdd(a, b) == Norm(a[1] + b[1], a[2] + b[2], a[3] + b[3])

\* a - b for a >= b
MagSub(a, b) == Norm(a[1] - b[1], a[2] - b[2], a[3] - b[3])

MagMul(a, k) == Norm(a[1] * k, a[2] * k, a[3] * k)

\* <<quotient, remainder>> of a by the small integer d
MagDivMod(a, d) ==
    LET t2 == (a[1] % d) * Limb + a[2]
        t3 == (t2 % d) * Limb + a[3]
    IN  <<(<<a[1] \div d, t2 \div d, t3 \div d>>), t3 % d>>

\* round-to-nearest, ties-to-even, of the exact value q + r/d (0 <= r < d)
\* to MantBits significant bits.  The values rounded here have at least
\* MantBits bits whenever r # 0, so the unit in the last place is >= 1 unit.
RoundMag(q, r, d) ==
    LET n     == MagBits(q)
        u     == 2 ^ (IF n > MantBits THEN n - MantBits ELSE 0)
        s     == q[3] % u
        keep  == q[3] - s
        twice == 2 * (s * d + r)
        half  == u * d
        odd   == (keep \div u) % 2 = 1
        up    == twice > half \/ (twice = half /\ odd)
    IN  Norm(q[1], q[2], keep + (IF up THEN u ELSE 0))

\* float(k) for an integer 0 <= k < 2^10
FromInt(k) == [neg |-> FALSE, mag |-> <<k * UnitHi, 0, 0>>]

\* n / d, Python's true division of two non-negative integers
FDivInt(n, d) ==
    LET qr == MagDivMod(<<n * UnitHi, 0, 0>>, d)
    IN  [neg |-> FALSE, mag |-> RoundMag(qr[1], qr[2], d)]

\* the double nearest the decimal c/100: what round(x, 2) returns and what a
\* float literal or a slider position with two decimals denotes
Dec(c) == FDivInt(c, 100)

FNeg(a) == [a EXCEPT !.neg = ~a.neg]

FAbs(a) == [a EXCEPT !.neg = FALSE]

FAdd(a, b) ==
    IF a.neg = b.neg
    THEN [neg |-> a.neg, mag |-> RoundMag(MagAdd(a.mag, b.mag), 0, 1)]
    ELSE IF MagLt(a.mag, b.mag)
    THEN [neg |-> b.neg, mag |-> RoundMag(MagSub(b.mag, a.mag), 0, 1)]
    ELSE [neg |-> a.neg, mag |-> RoundMag(MagSub(a.mag, b.mag), 0, 1)]

FSub(a, b) == FAdd(a, FNeg(b))

\* a * k for a double a and a small positive integer k
FMul(a, k) == [neg |-> a.neg, mag |-> RoundMag(MagMul(a.mag, k), 0, 1)]

IsZero(a) == a.mag = <<0, 0, 0>>

FLt(a, b) ==
    IF IsZero(a) /\ IsZero(b) THEN FALSE
    ELSE IF a.neg # b.neg THEN a.neg
    ELSE IF a.neg THEN MagLt(b.mag, a.mag)
    ELSE MagLt(a.mag, b.mag)

FLe(a, b) == ~FLt(b, a)

\* int(a): truncation toward zero
FInt(a) ==
    LET t == a.mag[1] \div UnitHi
    IN  IF a.neg THEN -t ELSE t

Max(a, b) == IF a >= b THEN a ELSE b

Min(a, b) == IF a <= b THEN a ELSE b

(***************************************************************************)
(* QUALITY LOGIC and WQI (src/app.py lines 79-92).  p (the pH) and turb    *)
(* are doubles, d (the TDS) is an int.                                     *)
(***************************************************************************)
\* classify with the Safe turbidity bound made non-strict, like the Moderate one
classify_le3(p, turb, d) ==
    IF FLe(Dec(650), p) /\ FLe(p, Dec(850)) /\ FLe(turb, FromInt(3)) /\ d <= 600
    THEN "Safe"
    ELSE IF FLe(turb, FromInt(5)) /\ d <= 900
    THEN "Moderate"
    ELSE "Unsafe"

\* classify with a pH band (6 to 9) added to the Moderate test
classify_phBand(p, turb, d) ==
    IF FLe(Dec(650), p) /\ FLe(p, Dec(850)) /\ FLt(turb, FromInt(3)) /\ d <= 600
    THEN "Safe"
    ELSE IF FLe(FromInt(6), p) /\ FLe(p, FromInt(9)) /\ FLe(turb, FromInt(5)) /\ d <= 900
    THEN "Moderate"
    ELSE "Unsafe"

classify(p, turb, d) ==
    IF FLe(Dec(650), p) /\ FLe(p, Dec(850)) /\ FLt(turb, FromInt(3)) /\ d <= 600
    THEN "Safe"
    ELSE IF FLe(turb, FromInt(5)) /\ d <= 900
    THEN "Moderate"
    ELSE "Unsafe"

\* raw without abs(): 100 - ((7 - ph) * 10 + ...)
raw_noAbs(p, turb, d) ==
    FSub(FromInt(100),
         FAdd(FAdd(FMul(FSub(FromInt(7), p), 10), FMul(turb, 8)),
              FDivInt(d, 50)))

\* the argument of int(): 100 - (abs(7 - ph) * 10 + turbidity * 8 + (tds / 50))
raw(p, turb, d) ==
    FSub(FromInt(100),
         FAdd(FAdd(FMul(FAbs(FSub(FromInt(7), p)), 10), FMul(turb, 8)),
              FDivInt(d, 50)))

\* the index without its lower clamp: min(100, int(...))
wqi_noLowerClamp(p, turb, d) == Min(100, FInt(raw(p, turb, d)))

\* the index rounded to nearest instead of truncated: int(... + 0.5)
wqi_nearest(p, turb, d) == Max(0, Min(100, FInt(FAdd(raw(p, turb, d), Dec(50)))))

\* max(0, min(100, int(...)))
wqi_of(p, turb, d) == Max(0, Min(100, FInt(raw(p, turb, d))))

(***************************************************************************)
(* SESSION STATE (lines 14-19): the four lists are created when the key    *)
(* "ph_history" is absent and are otherwise left as the last run left them.*)
(***************************************************************************)
SessionKeys == {"ph_history", "turb_history", "tds_history", "alert_log"}

\* the session state created on every run, without the "not in" test
SessionState_reset ==
    [ph_history |-> <<>>, turb_history |-> <<>>, tds_history |-> <<>>,
     alert_log |-> <<>>]

SessionState ==
    IF "ph_history" \notin session_keys
    THEN [ph_history |-> <<>>, turb_history |-> <<>>, tds_history |-> <<>>,
          alert_log |-> <<>>]
    ELSE [ph_history |-> ph_history, turb_history |-> turb_history,
          tds_history |-> tds_history, alert_log |-> alert_log]

(***************************************************************************)
(* SIDEBAR and SENSOR VALUES (lines 21-67).                                *)
(***************************************************************************)
Locations == {"Narmada River", "Indore City", "Water Treatment Plant"}

\* st.sidebar.slider(label, lo, hi, default): positions lo..hi; float sliders
\* move in steps of 0.01 and are counted in hundredths
SliderPh   == 0 .. 1400
SliderTurb == 0 .. 1000
SliderTds  == 0 .. 1200

\* round(random.uniform(lo, hi), 2), in hundredths
RoundUniform(lo, hi) == lo .. hi

\* random.randint(lo, hi)
RandInt(lo, hi) == lo .. hi

SpikePh    == RoundUniform(300, 500)
SpikeTurb  == RoundUniform(700, 1000)
SpikeTds   == RandInt(900, 1200)
NormalPh   == RoundUniform(650, 880)
NormalTurb == RoundUniform(0, 600)
NormalTds  == RandInt(100, 700)

\* the if / elif / else of lines 56-67: sl the slider positions, sd the
\* spike draw, nd the normal draw (only the branch taken reads its argument)
\* the branches in the other order: if simulate_spike ... elif demo_mode ...
SensorValues_spikeFirst(demo, spike, sl, sd, nd) ==
    IF spike THEN sd
    ELSE IF demo THEN sl
    ELSE nd

SensorValues(demo, spike, sl, sd, nd) ==
    IF demo THEN sl
    ELSE IF spike THEN sd
    ELSE nd

(***************************************************************************)
(* STORE HISTORY (lines 69-76): append, then keep the last HistoryLen.     *)
(***************************************************************************)
HistoryLen == 10

LastN(s, n) == IF Len(s) <= n THEN s ELSE SubSeq(s, Len(s) - n + 1, Len(s))

StoreHistory(h, v) == LastN(Append(h, v), HistoryLen)

(***************************************************************************)
(* ALERT TAB (lines 148-156).                                              *)
(***************************************************************************)
AlertRecord(t, loc, r) ==
    [Time |-> t, Location |-> loc, pH |-> r[1], Turbidity |-> r[2], TDS |-> r[3]]

\* the alert log with repeated records dropped
AlertTab_dedup(log, st, t, loc, r) ==
    IF st = "Unsafe" /\ (log = <<>> \/ log[Len(log)] # AlertRecord(t, loc, r))
    THEN Append(log, AlertRecord(t, loc, r))
    ELSE log

\* the alert log cut to its last HistoryLen records, like the histories
AlertTab_window(log, st, t, loc, r) ==
    IF st = "Unsafe" THEN LastN(Append(log, AlertRecord(t, loc, r)), HistoryLen)
    ELSE log

\* the alert log fed by every reading that is not Safe
AlertTab_notSafe(log, st, t, loc, r) ==
    IF st # "Safe" THEN Append(log, AlertRecord(t, loc, r)) ELSE log

AlertTab(log, st, t, loc, r) ==
    IF st = "Unsafe" THEN Append(log, AlertRecord(t, loc, r)) ELSE log

(***************************************************************************)
(* One run of the script, top to bottom.                                   *)
(***************************************************************************)
Cycle(loc, demo, spike, t, sl, sd, nd) ==
    LET ss == SessionState
        r  == SensorValues(demo, spike, sl, sd, nd)
        st == classify(Dec(r[1]), Dec(r[2]), r[3])
    IN  /\ session_keys' = session_keys \cup SessionKeys
        /\ location' = loc
        /\ demo_mode' = demo
        /\ simulate_spike' = spike
        /\ slider' = IF demo THEN sl ELSE <<>>
        /\ ph' = r[1]
        /\ turbidity' = r[2]
        /\ tds' = r[3]
        /\ ph_history' = StoreHistory(ss.ph_history, r[1])
        /\ turb_history' = StoreHistory(ss.turb_history, r[2])
        /\ tds_history' = StoreHistory(ss.tds_history, r[3])
        /\ status' = st
        /\ wqi' = wqi_of(Dec(r[1]), Dec(r[2]), r[3])
        /\ now' = t
        /\ alert_log' = AlertTab(ss.alert_log, st, t, loc, r)
        /\ cycles' = cycles + 1
        /\ readings' = Append(readings, r)

InSlider(r) == r[1] \in SliderPh /\ r[2] \in SliderTurb /\ r[3] \in SliderTds

InSpike(r) == r[1] \in SpikePh /\ r[2] \in SpikeTurb /\ r[3] \in SpikeTds

InNormal(r) == r[1] \in NormalPh /\ r[2] \in NormalTurb /\ r[3] \in NormalTds

\* the argument of a branch of SensorValues that the run does not take
None == <<0, 0, 0>>

\* demo mode on; the contamination button may have been pressed as well
RunDemo(P, L, T) ==
    \E loc \in L \cap Locations, t \in T, spike \in BOOLEAN, sl \in {r \in P : InSlider(r)} :
        Cycle(loc, TRUE, spike, t, sl, None, None)

\* demo mode off, contamination button pressed
RunSpike(P, L, T) ==
    \E loc \in L \cap Locations, t \in T, sd \in {r \in P : InSpike(r)} :
        Cycle(loc, FALSE, TRUE, t, None, sd, None)

\* demo mode off, button not pressed
RunNormal(P, L, T) ==
    \E loc \in L \cap Locations, t \in T, nd \in {r \in P : InNormal(r)} :
        Cycle(loc, FALSE, FALSE, t, None, None, nd)

Init ==
    /\ session_keys = {}
    /\ ph_history = <<>>
    /\ turb_history = <<>>
    /\ tds_history = <<>>
    /\ alert_log = <<>>
    /\ location = ""
    /\ demo_mode = FALSE
    /\ simulate_spike = FALSE
    /\ slider = <<>>
    /\ ph = 0
    /\ turbidity = 0
    /\ tds = 0
    /\ status = ""
    /\ wqi = 0
    /\ now = 0
    /\ cycles = 0
    /\ readings = <<>>

(***************************************************************************)
(* Spec: a session of up to MaxCycles runs in any mix of the three input   *)
(* modes, over a small pool of readings holding all three tiers.           *)
(***************************************************************************)
MaxCycles == 3

CyclePool ==
    { <<720, 200, 350>>,     \* the slider defaults, Safe
      <<400, 900, 1000>>,    \* a spike, Unsafe
      <<500, 700, 900>>,     \* the mildest spike, Unsafe
      <<880, 300, 700>>,     \* Moderate
      <<650, 500, 700>>,     \* Moderate, turbidity on the bound
      <<650, 600, 100>> }    \* Unsafe by turbidity alone

CycleLocations == {"Narmada River", "Indore City"}

\* the clock reading of a run (10:00:00): runs that a click or a slider
\* triggers can fall within one second
Times == {36000}

DemoRun == cycles < MaxCycles /\ RunDemo(CyclePool, CycleLocations, Times)

SpikeRun == cycles < MaxCycles /\ RunSpike(CyclePool, CycleLocations, Times)

NormalRun == cycles < MaxCycles /\ RunNormal(CyclePool, CycleLocations, Times)

Next == DemoRun \/ SpikeRun \/ NormalRun

Spec == Init /\ [][Next]_vars

(***************************************************************************)
(* SpecEval: the first run of a session over a grid of readings that holds *)
(* every threshold of classify and its neighbours.                         *)
(***************************************************************************)
GridN == 4

Lattice(lo, hi) == {lo + (k * (hi - lo)) \div GridN : k \in 0 .. GridN}

PhGrid   == {0, 112, 300, 400, 500, 649, 650, 690, 700, 710, 720, 850, 851, 880}
                \cup Lattice(0, 1400)
TurbGrid == {0, 112, 200, 299, 300, 301, 500, 501, 600, 700, 900}
                \cup Lattice(0, 1000)
TdsGrid  == {0, 2, 100, 350, 600, 601, 700, 900, 901, 1000}
                \cup Lattice(0, 1200)

EvalPool == PhGrid \X TurbGrid \X TdsGrid

EvalLocations == {"Water Treatment Plant"}

DemoEval == cycles = 0 /\ RunDemo(EvalPool, EvalLocations, Times)

SpikeEval == cycles = 0 /\ RunSpike(EvalPool, EvalLocations, Times)

NormalEval == cycles = 0 /\ RunNormal(EvalPool, EvalLocations, Times)

NextEval == DemoEval \/ SpikeEval \/ NormalEval

SpecEval == Init /\ [][NextEval]_vars

(***************************************************************************)
(* SpecWindow: a session long enough for the histories to evict.  Every    *)
(* run is a spike (Unsafe) or a normal reading; the normal reading of an   *)
(* even run is Safe and that of an odd run is Moderate.                    *)
(***************************************************************************)
WindowCycles == 15

\* the clock of a session left to refresh itself: time.sleep(refresh_time)
\* with the slider's default of 4 seconds
WindowTimes(n) == {36000 + 4 * n}

WindowPool(n) ==
    {<<400, 900, 1000>>} \cup
        (IF n % 2 = 0 THEN {<<720, 200, 350>>} ELSE {<<880, 300, 700>>})

SpikeWindow ==
    cycles < WindowCycles /\ RunSpike(WindowPool(cycles), EvalLocations, WindowTimes(cycles))

NormalWindow ==
    cycles < WindowCycles /\ RunNormal(WindowPool(cycles), EvalLocations, WindowTimes(cycles))

NextWindow == SpikeWindow \/ NormalWindow

SpecWindow == Init /\ [][NextWindow]_vars

(***************************************************************************)
(* Properties.                                                             *)
(***************************************************************************)
Abs(x) == IF x < 0 THEN -x ELSE x

Reading == <<ph, turbidity, tds>>

\* the floor of a double, the conversion the specification names
FFloor(a) ==
    LET t    == a.mag[1] \div UnitHi
        frac == a.mag[1] % UnitHi # 0 \/ a.mag[2] # 0 \/ a.mag[3] # 0
    IN  IF a.neg THEN (IF frac THEN -t - 1 ELSE -t) ELSE t

\* the index in exact decimal arithmetic: p and t in hundredths, so that
\* 100 * raw = 10000 - (|700 - p| * 10 + t * 8 + d * 2)
ExactIndex(p, t, d) ==
    Max(0, Min(100, (10000 - (Abs(700 - p) * 10 + t * 8 + d * 2)) \div 100))

\* C1: classify evaluates its bands in order, first match wins: Safe iff
\* 6.5 <= ph <= 8.5 and turbidity < 3 and tds <= 600; otherwise Moderate iff
\* turbidity <= 5 and tds <= 900; otherwise Unsafe.  A reading with turbidity
\* exactly 3 and Safe-qualifying ph and tds is Moderate, and the result is
\* always one of the three tiers.
C1_ClassifyBands ==
    cycles > 0 =>
        LET safe     == 650 <= ph /\ ph <= 850 /\ turbidity < 300 /\ tds <= 600
            moderate == turbidity <= 500 /\ tds <= 900
        IN  /\ status \in {"Safe", "Moderate", "Unsafe"}
            /\ (status = "Safe") <=> safe
            /\ (status = "Moderate") <=> (~safe /\ moderate)
            /\ (status = "Unsafe") <=> (~safe /\ ~moderate)
            /\ (turbidity = 300 /\ 650 <= ph /\ ph <= 850 /\ tds <= 600)
                   => status = "Moderate"

C1_Witness ==
    /\ cycles > 0
    /\ turbidity = 300 /\ ph = 850 /\ tds = 600
    /\ status = "Moderate"

C3_IndexInRange ==
    cycles > 0 =>
        /\ wqi \in 0 .. 100
        /\ Reading = <<700, 0, 0>> => wqi = 100

C3_Witness ==
    /\ cycles > 0
    /\ demo_mode
    /\ Reading = <<700, 0, 0>>
    /\ wqi = 100

\* the index of every reading of the grid, as wqi_of computes it
IndexTable == [r \in EvalPool |-> wqi_of(Dec(r[1]), Dec(r[2]), r[3])]

\* C4: the quality index is non-increasing in each penalty taken alone: of
\* two readings that differ only in |7 - ph|, only in turbidity or only in
\* tds, the one with the larger value has an index <= the other's.
C4_IndexMonotone ==
    cycles > 0 =>
        /\ \A p2 \in PhGrid :
               Abs(700 - p2) > Abs(700 - ph) => IndexTable[<<p2, turbidity, tds>>] <= wqi
        /\ \A t2 \in TurbGrid :
               t2 > turbidity => IndexTable[<<ph, t2, tds>>] <= wqi
        /\ \A d2 \in TdsGrid :
               d2 > tds => IndexTable[<<ph, turbidity, d2>>] <= wqi

\* a reading on the alkaline side whose index drops strictly when the pH
\* moves further from 7, and stays when it moves to the mirror image
C4_Witness ==
    /\ cycles > 0
    /\ ph = 710
    /\ IndexTable[<<850, turbidity, tds>>] < wqi
    /\ IndexTable[<<500, turbidity, tds>>] < wqi

\* C5: after n cycles each history has length min(n, 10) and holds the
\* matching component of the last min(n, 10) readings in arrival order, the
\* three histories aligned; after 15 cycles they hold readings 6 to 15.  The
\* session state is created once and is not reset by a re-run.
C5_HistoryWindow ==
    LET k == IF cycles < 10 THEN cycles ELSE 10
    IN  /\ Len(readings) = cycles
        /\ Len(ph_history) = k /\ Len(turb_history) = k /\ Len(tds_history) = k
        /\ \A i \in 1 .. k :
               <<ph_history[i], turb_history[i], tds_history[i]>> = readings[cycles - k + i]
        /\ cycles = 15 =>
               \A i \in 1 .. 10 :
                   <<ph_history[i], turb_history[i], tds_history[i]>> = readings[5 + i]

C5_Witness ==
    /\ cycles = 15
    /\ Len(ph_history) = 10
    /\ readings[5] # readings[6]
    /\ ph_history[1] = readings[6][1]
    /\ tds_history[10] = tds

\* C6: every cycle whose reading is Unsafe appends exactly one record to the
\* end of the alert log, carrying that cycle's location, ph, turbidity and
\* tds; nothing is deduplicated, so k consecutive Unsafe cycles append k
\* records even when the readings are identical.
C6_UnsafeAppendsOne ==
    [][status' = "Unsafe" =>
          /\ Len(alert_log') = Len(alert_log) + 1
          /\ SubSeq(alert_log', 1, Len(alert_log)) = alert_log
          /\ alert_log'[Len(alert_log')] =
                 [Time |-> now', Location |-> location', pH |-> ph',
                  Turbidity |-> turbidity', TDS |-> tds']]_vars

\* three Unsafe cycles in a row with the same reading left three equal records
C6_Witness ==
    /\ cycles = 3
    /\ status = "Unsafe"
    /\ Len(alert_log) = 3
    /\ alert_log[1] = alert_log[2]
    /\ alert_log[2] = alert_log[3]

\* C7: the alert log is append-only: a Safe or Moderate cycle leaves it as it
\* was, and no cycle changes, reorders or removes a record (the log before a
\* cycle is a prefix of the log after it), with no capacity bound, also
\* while the histories evict.
C7_AlertLogAppendOnly ==
    [][/\ status' # "Unsafe" => alert_log' = alert_log
       /\ Len(alert_log) <= Len(alert_log')
       /\ SubSeq(alert_log', 1, Len(alert_log)) = alert_log]_vars

\* a Moderate cycle after the histories started evicting, the log longer
\* than a history
C7_Witness ==
    /\ cycles >= 12
    /\ Len(ph_history) = 10
    /\ Len(alert_log) = 11
    /\ status = "Moderate"

\* C8: classify returns Unsafe exactly when turbidity > 5 or tds > 900,
\* whatever the pH: no pH makes a reading with turbidity <= 5 and tds <= 900
\* Unsafe.
C8_UnsafeIgnoresPh ==
    cycles > 0 =>
        /\ (status = "Unsafe") <=> (turbidity > 500 \/ tds > 900)
        /\ (turbidity <= 500 /\ tds <= 900) => status \in {"Safe", "Moderate"}

\* pH 0 with turbidity on its bound and tds on its bound is Moderate
C8_Witness ==
    /\ cycles > 0
    /\ ph = 0 /\ turbidity = 500 /\ tds = 900
    /\ status = "Moderate"

\* C9: every record of the alert log holds a reading classify maps to
\* Unsafe, and the log has as many records as there were cycles with an
\* Unsafe reading since the session started.
C9_LogHoldsUnsafeCycles ==
    /\ \A i \in 1 .. Len(alert_log) :
           classify(Dec(alert_log[i].pH), Dec(alert_log[i].Turbidity), alert_log[i].TDS)
               = "Unsafe"
    /\ Len(alert_log) =
           Cardinality({i \in 1 .. Len(readings) :
               classify(Dec(readings[i][1]), Dec(readings[i][2]), readings[i][3])
                   = "Unsafe"})

\* Unsafe, then Moderate, then Unsafe: two records after three cycles
C9_Witness ==
    /\ cycles = 3
    /\ Len(alert_log) = 2
    /\ readings[2] = <<650, 500, 700>>
    /\ alert_log[2].pH = ph

\* C10: with demo mode on the reading is the sliders', even if the
\* contamination button was pressed; with demo mode off and the button
\* pressed the reading has ph in [3, 5], turbidity in [7, 10] and tds in
\* [900, 1200], is Unsafe and is logged; with neither, the reading has ph in
\* [6.5, 8.8], turbidity in [0, 6] and tds in [100, 700] and is Unsafe only
\* if turbidity > 5.
C10_InputModes ==
    cycles > 0 =>
        /\ demo_mode => Reading = slider
        /\ (~demo_mode /\ simulate_spike) =>
               /\ ph \in 300 .. 500 /\ turbidity \in 700 .. 1000 /\ tds \in 900 .. 1200
               /\ status = "Unsafe"
               /\ alert_log # <<>>
               /\ alert_log[Len(alert_log)] =
                      [Time |-> now, Location |-> location, pH |-> ph,
                       Turbidity |-> turbidity, TDS |-> tds]
        /\ (~demo_mode /\ ~simulate_spike) =>
               /\ ph \in 650 .. 880 /\ turbidity \in 0 .. 600 /\ tds \in 100 .. 700
               /\ status = "Unsafe" => turbidity > 500

\* demo mode on and the button pressed: the Safe slider reading is taken
C10_Witness ==
    /\ cycles > 0
    /\ demo_mode /\ simulate_spike
    /\ Reading = <<720, 200, 350>>
    /\ slider = <<720, 200, 350>>
    /\ status = "Safe"

====
